---- MODULE Spec2Model ----
(***************************************************************************)
(* git-evolve: the line-attribution analyzer (analyze_file_blame_optimized)*)
(* and the report reduction of analyze (src/git_evolve/analyzer.py), the   *)
(* revision resolver (resolve_commit), and a whole run of main             *)
(* (src/git_evolve/cli.py) with the worker pool of analyze_parallel.       *)
(*                                                                         *)
(* Text is modelled as sequences of one-character strings, so that         *)
(* str.startswith, str.split and slicing are computed as Python computes   *)
(* them.  Percentages are integers in hundredths of a percent (3333 is     *)
(* 33.33), the precision round(x, 2) keeps.                                *)
(***************************************************************************)
EXTENDS Integers, Sequences, FiniteSets, TLC

VARIABLES
    \* one call of analyze_file_blame_optimized
    file_path,      \* the path argument
    base_commit,    \* the base revision argument
    binary,         \* what the check-attr query of is_binary_file does
    blame,          \* what the blame query does: [kind, output]
    outcome,        \* what the call did: NotCalled, or [raised, value, blamed]
    \* one run of analyze from the file listing on
    files,          \* the listing get_tracked_files returned
    results,        \* the per-file tuples collected so far
    report,         \* the AnalysisResult, NoReport until it is built
    \* one run of main: analyze, analyze_parallel and the output
    args,           \* the arguments: [parallel, max_workers, show_progress]
    setup,          \* what the queries before the analysis do
    pc,             \* where the run is
    pool,           \* the ProcessPoolExecutor: "none", "open" or "closed"
    tasks,          \* the state of the future of each submitted file
    taken,          \* the futures as_completed has yielded, in order
    completed,      \* the counter of analyze_parallel
    stdout,         \* what was written to standard output, in order
    stderr,         \* what was written to standard error, in order
    exit_status,    \* None while the process runs, then Some(status)
    \* one call of resolve_commit
    rev_parse,      \* what git rev-parse does: [kind, output]
    resolved,       \* NotCalled, or [raised, value]
    \* one call of get_tracked_files
    ls_files,       \* what git ls-files does: [kind, lines, output]
    exclude_patterns,   \* the exclude_patterns argument
    tracked,        \* what the call did: [called, raised, value]
    \* one call of run_git_command
    git_cmd,        \* the cmd argument
    backend,        \* what subprocess.run does, invocation by invocation
    git_result      \* what the call did

blameVars == <<file_path, base_commit, binary, blame, outcome>>
reportVars == <<files, results, report>>
runVars == <<args, setup, pc, pool, tasks, taken, completed, stdout, stderr,
            exit_status>>
resolveVars == <<rev_parse, resolved>>
filesVars == <<ls_files, exclude_patterns, tracked>>
gitVars == <<git_cmd, backend, git_result>>
vars == <<file_path, base_commit, binary, blame, outcome,
          files, results, report,
          args, setup, pc, pool, tasks, taken, completed, stdout, stderr,
          exit_status, rev_parse, resolved,
          ls_files, exclude_patterns, tracked, git_cmd, backend, git_result>>

\* the variables of a run of main and of a call of resolve_commit, while
\* none is under way
NoRun ==
    /\ args = [parallel |-> FALSE, max_workers |-> 0, show_progress |-> FALSE]
    /\ setup = "ok"
    /\ pc = "none"
    /\ pool = "none"
    /\ tasks = <<>>
    /\ taken = <<>>
    /\ completed = 0
    /\ stdout = <<>>
    /\ stderr = <<>>
    /\ exit_status = <<>>

NoResolve ==
    /\ rev_parse = [kind |-> "ok", output |-> <<>>]
    /\ resolved = [called |-> FALSE, raised |-> "", value |-> <<>>]

NoListing ==
    /\ ls_files = [kind |-> "ok", lines |-> <<>>, output |-> <<>>]
    /\ exclude_patterns = <<>>
    /\ tracked = [called |-> FALSE, raised |-> "", value |-> <<>>]

NoGit ==
    /\ git_cmd = <<>>
    /\ backend = <<>>
    /\ git_result = [called |-> FALSE, raised |-> "", message |-> <<>>,
                     value |-> <<>>, invocations |-> 0]

----------------------------------------------------------------------------
(* Bounds of the model *)

MaxDumpLen == 4      \* lines in a blame dump
MaxFiles == 3        \* files of a small repository, every listing order
MaxLines == 2        \* lines of a file of a small repository
MaxTopFiles == 22    \* files of the large repository (more than BreakdownLimit)
MaxVaried == 1       \* files of the large repository that differ from the first

(* Program constants *)

PrefixLen == 7         \* base_commit[:7]
MinHashLen == 7        \* len(parts[0]) >= 7
BreakdownLimit == 20   \* file_stats[:20]
HashLen == 40          \* a full revision identifier

----------------------------------------------------------------------------
(* Python text primitives on sequences of characters *)

TAB == "\t"
SP == " "

\* the characters str.split() and str.strip() treat as white space, among
\* those a line of splitlines() can hold
IsSpace(c) == c \in {TAB, SP}

\* s.startswith(p)
StartsWith(s, p) == Len(s) >= Len(p) /\ SubSeq(s, 1, Len(p)) = p

\* s[:n]
Slice(s, n) == SubSeq(s, 1, IF Len(s) < n THEN Len(s) ELSE n)

MinOf(S) == CHOOSE x \in S : \A y \in S : x <= y

\* line.split(): <<>> when parts is empty, else <<parts[0]>>
FirstPart(line) ==
    LET solid == {i \in 1..Len(line) : ~IsSpace(line[i])}
    IN  IF solid = {} THEN <<>>
        ELSE LET s == MinOf(solid)
                 gaps == {j \in s..Len(line) : IsSpace(line[j])}
                 e == IF gaps = {} THEN Len(line) ELSE MinOf(gaps) - 1
             IN  <<SubSeq(line, s, e)>>

\* not output.strip(): the dump holds white space only
IsBlankOutput(output) ==
    \A i \in 1..Len(output) : \A j \in 1..Len(output[i]) : IsSpace(output[i][j])

----------------------------------------------------------------------------
(* Inputs: revisions, dump lines, paths *)

\* the i-th tracked path
PathName(i) == "f" \o ToString(i) \o ".py"

\* three full revision identifiers: RevA; RevB, which differs from RevA in
\* character PrefixLen; RevC, which differs from RevA in character
\* PrefixLen + 1 only (another revision with the same 7-character prefix)
RevA == [i \in 1..HashLen |-> "a"]
RevB == [i \in 1..HashLen |-> IF i = PrefixLen THEN "b" ELSE "a"]
RevC == [i \in 1..HashLen |-> IF i = PrefixLen + 1 THEN "c" ELSE "a"]

\* a resolved revision, and an abbreviated one as the tests pass
Bases == {RevA, <<"a", "a", "a", "a", "a", "a">>}

HeaderLine(rev) == rev \o <<SP, "1", SP, "1">>
ContinuationLine(rev) == <<SP>> \o rev
ContentLine == <<TAB, "x">>
EmptyContentLine == <<TAB>>
AuthorLine == <<"a", "u", "t", "h", "o", "r", SP, "x">>
SummaryLine == <<"s", "u", "m", "m", "a", "r", "y", SP, "x">>

DumpLines ==
    {HeaderLine(RevA), HeaderLine(RevB), HeaderLine(RevC),
     ContinuationLine(RevA), ContentLine, EmptyContentLine,
     AuthorLine, SummaryLine, <<>>}

Dumps == UNION {[1..n -> DumpLines] : n \in 0..MaxDumpLen}

\* git check-attr binary: the attribute value printed, or the query fails to
\* start (subprocess.run raises)
BinaryOutcomes == {"set", "unset", "unspecified", "error"}

\* git blame: the dump, a non-zero exit (GitCommandError), or any other
\* exception (the output cannot be decoded)
BlameOutcomes ==
    [kind : {"ok"}, output : Dumps]
        \cup {[kind |-> "GitCommandError", output |-> <<>>],
              [kind |-> "Exception", output |-> <<>>]}

NotCalled == [raised |-> FALSE, value |-> <<>>, blamed |-> FALSE]
NoReport == [error |-> "unbuilt"]

----------------------------------------------------------------------------
(* analyze_file_blame_optimized *)

\* is_binary_file on a query that ran: "binary" in stdout and "set" in stdout.
\* The attribute name is always echoed; "set" occurs in "set" and in "unset".
is_binary_file(attr) == attr \in {"set", "unset"}

\* BlameStep with total_lines += 1 moved under an else of the prefix test
BlameStepDropTotal(acc, line, base_prefix) ==
    IF StartsWith(line, <<TAB>>)
    THEN [acc EXCEPT !.total_lines = @ + 1]
    ELSE LET parts == FirstPart(line)
         IN  IF parts # <<>> /\ Len(parts[1]) >= MinHashLen
             THEN IF StartsWith(parts[1], base_prefix)
                  THEN [acc EXCEPT !.base_lines = @ + 1]
                  ELSE [acc EXCEPT !.total_lines = @ + 1]
             ELSE acc

\* one iteration of the loop over output.splitlines()
BlameStep(acc, line, base_prefix) ==
    IF StartsWith(line, <<TAB>>)
    THEN \* the code line content
         [acc EXCEPT !.total_lines = @ + 1]
    ELSE IF StartsWith(line, <<SP>>)
    THEN \* continuation line
         LET parts == FirstPart(line)
         IN  IF parts # <<>> /\ Len(parts[1]) >= MinHashLen
             THEN LET commit_hash == parts[1]
                  IN  [total_lines |-> acc.total_lines + 1,
                       base_lines |-> acc.base_lines
                           + (IF StartsWith(commit_hash, base_prefix) THEN 1 ELSE 0)]
             ELSE acc
    ELSE \* first occurrence line
         LET parts == FirstPart(line)
         IN  IF parts # <<>> /\ Len(parts[1]) >= MinHashLen
             THEN LET commit_hash == parts[1]
                  IN  [total_lines |-> acc.total_lines + 1,
                       base_lines |-> acc.base_lines
                           + (IF StartsWith(commit_hash, base_prefix) THEN 1 ELSE 0)]
             ELSE acc

RECURSIVE BlameLoop(_, _, _, _)
BlameLoop(output, i, acc, base_prefix) ==
    IF i > Len(output) THEN acc
    ELSE BlameLoop(output, i + 1, BlameStep(acc, output[i], base_prefix), base_prefix)

BlameReturn(path, total, base, issued) ==
    [raised |-> FALSE, value |-> <<path, total, base>>, blamed |-> issued]

\* analyze_file_blame_optimized without its except clauses
AnalyzeFileUncontained(path, base, bin, bl) ==
    IF bin = "error" \/ (~is_binary_file(bin) /\ bl.kind = "Exception")
    THEN [raised |-> TRUE, value |-> <<>>, blamed |-> bin # "error"]
    ELSE IF is_binary_file(bin) \/ bl.kind = "GitCommandError"
    THEN BlameReturn(path, 0, 0, ~is_binary_file(bin))
    ELSE LET acc == BlameLoop(bl.output, 1, [total_lines |-> 0, base_lines |-> 0],
                              Slice(base, PrefixLen))
         IN  BlameReturn(path, acc.total_lines, acc.base_lines, TRUE)

analyze_file_blame_optimized(path, base, bin, bl) ==
    IF bin = "error"
    THEN \* is_binary_file raised: except Exception
         BlameReturn(path, 0, 0, FALSE)
    ELSE IF is_binary_file(bin)
    THEN BlameReturn(path, 0, 0, FALSE)
    ELSE IF bl.kind = "GitCommandError"
    THEN BlameReturn(path, 0, 0, TRUE)
    ELSE IF bl.kind = "Exception"
    THEN BlameReturn(path, 0, 0, TRUE)
    ELSE IF IsBlankOutput(bl.output)
    THEN BlameReturn(path, 0, 0, TRUE)
    ELSE LET base_prefix == Slice(base, PrefixLen)
             acc == BlameLoop(bl.output, 1, [total_lines |-> 0, base_lines |-> 0],
                              base_prefix)
         IN  BlameReturn(path, acc.total_lines, acc.base_lines, TRUE)

----------------------------------------------------------------------------
(* SpecBlame: one call of analyze_file_blame_optimized on any input *)

InitBlame ==
    /\ file_path \in {PathName(1)}
    /\ base_commit \in Bases
    /\ binary \in BinaryOutcomes
    /\ blame \in BlameOutcomes
    /\ Len(blame.output) <= (IF binary = "unspecified" THEN MaxDumpLen ELSE 1)
    /\ outcome = NotCalled
    /\ files = <<>>
    /\ results = <<>>
    /\ report = NoReport
    /\ NoRun
    /\ NoResolve
    /\ NoListing
    /\ NoGit

AnalyzeFileBlame ==
    /\ outcome = NotCalled
    /\ outcome' = analyze_file_blame_optimized(file_path, base_commit, binary, blame)
    /\ UNCHANGED <<file_path, base_commit, binary, blame>>
    /\ UNCHANGED reportVars
    /\ UNCHANGED <<runVars, resolveVars, filesVars, gitVars>>

NextBlame == AnalyzeFileBlame

SpecBlame == InitBlame /\ [][NextBlame]_vars

\* the call returned from the decoding loop: the file is not flagged binary,
\* the blame query succeeded and its output is not white space only
Decoded ==
    /\ outcome # NotCalled
    /\ ~outcome.raised
    /\ binary = "unspecified"
    /\ blame.kind = "ok"
    /\ ~IsBlankOutput(blame.output)

----------------------------------------------------------------------------
(* Claims about analyze_file_blame_optimized, checked under SpecBlame *)

\* the code-content lines of a dump: the lines that begin with a tab
ContentLines(output) ==
    {i \in 1..Len(output) : StartsWith(output[i], <<TAB>>)}

\* C1: the totalLines returned for a dump is the number of its code-content
\* lines; header and metadata lines add nothing.
C1_TotalIsContentLines ==
    Decoded => outcome.value[2] = Cardinality(ContentLines(blame.output))

\* the count the specification describes: the revision of the latest header
\* is tested when a content line is reached
RECURSIVE SurvivingAtContent(_, _, _, _)
SurvivingAtContent(output, i, current, base_prefix) ==
    IF i > Len(output) THEN 0
    ELSE IF StartsWith(output[i], <<TAB>>)
    THEN (IF current # <<>> /\ StartsWith(current[1], base_prefix) THEN 1 ELSE 0)
             + SurvivingAtContent(output, i + 1, current, base_prefix)
    ELSE SurvivingAtContent(output, i + 1,
             IF FirstPart(output[i]) # <<>> THEN FirstPart(output[i]) ELSE current,
             base_prefix)

\* C2: baseSurvivingLines is the number of code-content lines whose latest
\* header revision starts with the first 7 characters of the base revision;
\* a header with no content line after it adds nothing.
C2_SurvivingCountedAtContent ==
    Decoded => outcome.value[3] =
        SurvivingAtContent(blame.output, 1, <<>>, Slice(base_commit, PrefixLen))

\* C3: every tuple returned satisfies 0 <= baseSurvivingLines <= totalLines.
C3_SurvivingWithinTotal ==
    (outcome # NotCalled /\ ~outcome.raised) =>
        /\ Len(outcome.value) = 3
        /\ 0 <= outcome.value[3]
        /\ outcome.value[3] <= outcome.value[2]

C3_Witness ==
    /\ Decoded
    /\ 0 < outcome.value[3]
    /\ outcome.value[3] < outcome.value[2]

\* C4: the call never raises; a file flagged binary gives (path, 0, 0) with
\* no blame query issued; a failing binary check, blame query or decoding
\* gives (path, 0, 0).
C4_NeverRaises ==
    outcome # NotCalled =>
        /\ ~outcome.raised
        /\ binary = "set" => (outcome.value = <<file_path, 0, 0>> /\ ~outcome.blamed)
        /\ (binary = "error" \/ blame.kind # "ok") =>
               outcome.value = <<file_path, 0, 0>>

C4_Witness ==
    /\ outcome # NotCalled
    /\ binary = "unspecified"
    /\ blame.kind = "Exception"
    /\ outcome.blamed
    /\ outcome.value = <<file_path, 0, 0>>

----------------------------------------------------------------------------
(* analyze: the reduction of the per-file tuples to the report *)

\* Optional[...] values
None == <<>>
Some(x) == <<x>>

\* round(num / den * 100, 2) in hundredths, den > 0.  CPython rounds the
\* double to the nearest hundredth; on an exact tie (which needs den to be a
\* multiple of 32) it gives the even hundredth for every den < 160, the
\* range this model reaches ties in.
RoundPctDown(num, den) == (10000 * num) \div den

RoundPct(num, den) ==
    LET scaled == 10000 * num
        q == scaled \div den
        r == scaled % den
    IN  IF 2 * r < den THEN q
        ELSE IF 2 * r > den THEN q + 1
        ELSE IF q % 2 = 0 THEN q ELSE q + 1

\* sum(r[k] for r in results), k counted from 1
RECURSIVE SumField(_, _)
SumField(rs, k) ==
    IF rs = <<>> THEN 0 ELSE rs[1][k] + SumField(Tail(rs), k)

ErrorReport(message, repo) ==
    [base_commit |-> <<>>,
     total_lines |-> 0,
     base_lines_surviving |-> 0,
     manual_or_modified_lines |-> 0,
     evolution_percent |-> 0,
     survival_percent |-> 0,
     files_analyzed |-> 0,
     repository |-> repo,
     file_breakdown |-> None,
     timeline |-> None,
     error |-> Some(message)]

\* Reduce with the first collected tuple left out of the sums
ReduceSkipFirst(rs, fs, base_full) ==
    LET total_lines == SumField(Tail(rs), 2)
        base_lines == SumField(Tail(rs), 3)
        manual_lines == total_lines - base_lines
        evolution_percent ==
            IF total_lines > 0 THEN RoundPct(manual_lines, total_lines) ELSE 0
    IN  [base_commit |-> base_full,
         total_lines |-> total_lines,
         base_lines_surviving |-> base_lines,
         manual_or_modified_lines |-> manual_lines,
         evolution_percent |-> evolution_percent,
         survival_percent |-> 10000 - evolution_percent,
         files_analyzed |-> Len(fs),
         repository |-> "repo",
         file_breakdown |-> None,
         timeline |-> None,
         error |-> None]

\* Reduce with survival_percent rounded from base_lines / total_lines, 0 for
\* an empty total, instead of taken as the complement
ReduceSurvivalFromBase(rs, fs, base_full) ==
    LET total_lines == SumField(rs, 2)
        base_lines == SumField(rs, 3)
        manual_lines == total_lines - base_lines
        evolution_percent ==
            IF total_lines > 0 THEN RoundPct(manual_lines, total_lines) ELSE 0
    IN  [base_commit |-> base_full,
         total_lines |-> total_lines,
         base_lines_surviving |-> base_lines,
         manual_or_modified_lines |-> manual_lines,
         evolution_percent |-> evolution_percent,
         survival_percent |->
             IF total_lines > 0 THEN RoundPct(base_lines, total_lines) ELSE 0,
         files_analyzed |-> Len(fs),
         repository |-> "repo",
         file_breakdown |-> None,
         timeline |-> None,
         error |-> None]

\* Reduce with files_analyzed counted from the collected tuples instead of
\* the listing
ReduceCountResults(rs, fs, base_full) ==
    LET total_lines == SumField(rs, 2)
        base_lines == SumField(rs, 3)
        manual_lines == total_lines - base_lines
        evolution_percent ==
            IF total_lines > 0 THEN RoundPct(manual_lines, total_lines) ELSE 0
    IN  [base_commit |-> base_full,
         total_lines |-> total_lines,
         base_lines_surviving |-> base_lines,
         manual_or_modified_lines |-> manual_lines,
         evolution_percent |-> evolution_percent,
         survival_percent |-> 10000 - evolution_percent,
         files_analyzed |-> Len(rs),
         repository |-> "repo",
         file_breakdown |-> None,
         timeline |-> None,
         error |-> None]

\* the totals and percentages, and the result record before the optional parts
Reduce(rs, fs, base_full) ==
    LET total_lines == SumField(rs, 2)
        base_lines == SumField(rs, 3)
        manual_lines == total_lines - base_lines
        evolution_percent ==
            IF total_lines > 0 THEN RoundPct(manual_lines, total_lines) ELSE 0
    IN  [base_commit |-> base_full,
         total_lines |-> total_lines,
         base_lines_surviving |-> base_lines,
         manual_or_modified_lines |-> manual_lines,
         evolution_percent |-> evolution_percent,
         \* round(100 - evolution_percent, 2)
         survival_percent |-> 10000 - evolution_percent,
         files_analyzed |-> Len(fs),
         repository |-> "repo",
         file_breakdown |-> None,
         timeline |-> None,
         error |-> None]

\* the loop that fills file_stats: one entry per tuple with file_total > 0
RECURSIVE FileStats(_)
FileStats(rs) ==
    IF rs = <<>> THEN <<>>
    ELSE LET file_path_ == rs[1][1]
             file_total == rs[1][2]
             file_base == rs[1][3]
         IN  (IF file_total > 0
              THEN <<[file |-> file_path_,
                      total_lines |-> file_total,
                      evolved_lines |-> file_total - file_base,
                      evolution_percent |->
                          RoundPct(file_total - file_base, file_total)]>>
              ELSE <<>>)
             \o FileStats(Tail(rs))

\* list.sort(key=evolution_percent, reverse=True): descending, and stable
\* (entries with equal keys keep their order)
SortByEvolution(stats) ==
    LET n == Len(stats)
        \* the place of entry i: after the entries with a greater key and
        \* after the earlier entries with the same key
        place == [i \in 1..n |->
            1 + Cardinality({j \in 1..n :
                    stats[j].evolution_percent > stats[i].evolution_percent})
              + Cardinality({j \in 1..(i - 1) :
                    stats[j].evolution_percent = stats[i].evolution_percent})]
    IN  [k \in 1..n |-> stats[CHOOSE i \in 1..n : place[i] = k]]

\* FileBreakdown without the truncation
FileBreakdownUncut(rs) == SortByEvolution(FileStats(rs))

\* FileBreakdown truncating before it sorts
FileBreakdownCutFirst(rs) ==
    SortByEvolution(Slice(FileStats(rs), BreakdownLimit))

\* result["file_breakdown"]
FileBreakdown(rs) == Slice(SortByEvolution(FileStats(rs)), BreakdownLimit)

\* get_commit_timeline on what git log did; a log line is given as its
\* fields between "|" separators
get_commit_timeline(log) ==
    IF log.kind = "GitCommandError" THEN <<>>
    ELSE LET RECURSIVE Entries(_)
             Entries(lines) ==
                 IF lines = <<>> THEN <<>>
                 ELSE (IF Len(lines[1]) >= 3
                       THEN <<[hash |-> lines[1][1],
                               date |-> lines[1][2],
                               message |-> SubSeq(lines[1], 3, Len(lines[1]))]>>
                       ELSE <<>>)
                      \o Entries(Tail(lines))
         IN  Entries(log.lines)

\* analyze from the reduction on (the listing is not empty):
\* the result record, the optional breakdown and timeline, and the handler
\* of an exception that is no GitCommandError
BuildResult(rs, fs, base_full, want_breakdown, want_timeline, log) ==
    IF want_timeline /\ log.kind = "Exception"
    THEN ErrorReport("Unexpected error", "")
    ELSE [Reduce(rs, fs, base_full) EXCEPT
              !.file_breakdown =
                  IF want_breakdown THEN Some(FileBreakdown(rs)) ELSE None,
              !.timeline =
                  IF want_timeline THEN Some(get_commit_timeline(log)) ELSE None]

----------------------------------------------------------------------------
(* SpecReport: analyze from the listing on, over small repositories with    *)
(* any per-file tuples and one large repository whose files are alike but  *)
(* for MaxVaried of them                                                   *)

Listing(n) == [i \in 1..n |-> PathName(i)]

\* the (totalLines, baseSurvivingLines) an analyzed file can give
FileResults ==
    {p \in (0..MaxLines) \X (0..MaxLines) : p[2] <= p[1]} \cup {<<100, 80>>}

LargeFileResults == {<<0, 0>>, <<1, 0>>, <<2, 1>>}

\* git log: its output, a non-zero exit (GitCommandError), or any other
\* exception (the output cannot be decoded)
LogOutcomes ==
    {[kind |-> "ok", lines |-> <<<<"h", "d", "m">>, <<"x">>>>],
     [kind |-> "GitCommandError", lines |-> <<>>],
     [kind |-> "Exception", lines |-> <<>>]}

\* the timeline argument, and what git log does when it is set
TimelineCases ==
    {[timeline |-> FALSE, log |-> [kind |-> "ok", lines |-> <<>>]]}
        \cup [timeline : {TRUE}, log : LogOutcomes]

IsLarge(fs) == Len(fs) > MaxFiles

\* the tuples of rs whose counts differ from those of the first
Varied(rs) ==
    {i \in 1..Len(rs) : <<rs[i][2], rs[i][3]>> # <<rs[1][2], rs[1][3]>>}

InitReport ==
    /\ files \in {Listing(n) : n \in (1..MaxFiles) \cup {MaxTopFiles}}
    /\ results = <<>>
    /\ report = NoReport
    /\ base_commit = RevA
    /\ file_path = PathName(1)
    /\ binary = "unspecified"
    /\ blame = [kind |-> "ok", output |-> <<>>]
    /\ outcome = NotCalled
    /\ NoRun
    /\ NoResolve
    /\ NoListing
    /\ NoGit

\* the next file of the listing is analyzed and its tuple collected
AnalyzeFile ==
    /\ report = NoReport
    /\ Len(results) < Len(files)
    /\ \E r \in (IF IsLarge(files) THEN LargeFileResults ELSE FileResults) :
           LET collected ==
                   Append(results, <<files[Len(results) + 1], r[1], r[2]>>)
           IN  /\ IsLarge(files) => Cardinality(Varied(collected)) <= MaxVaried
               /\ results' = collected
    /\ UNCHANGED <<files, report>>
    /\ UNCHANGED blameVars
    /\ UNCHANGED <<runVars, resolveVars, filesVars, gitVars>>

\* the reduction, once every file has its tuple
BuildReport ==
    /\ report = NoReport
    /\ Len(results) = Len(files)
    /\ \E want_breakdown \in BOOLEAN, tc \in TimelineCases :
           report' = BuildResult(results, files, base_commit,
                                 want_breakdown, tc.timeline, tc.log)
    /\ UNCHANGED <<files, results>>
    /\ UNCHANGED blameVars
    /\ UNCHANGED <<runVars, resolveVars, filesVars, gitVars>>

NextReport == AnalyzeFile \/ BuildReport

SpecReport == InitReport /\ [][NextReport]_vars

\* analyze returned a report built by the reduction
Reduced == report # NoReport /\ report.error = None

----------------------------------------------------------------------------
(* Claims about the report, checked under SpecReport *)

Abs(x) == IF x < 0 THEN -x ELSE x

\* pct (in hundredths) is 100 * num / den rounded to 2 decimals
IsRounded(pct, num, den) == 2 * Abs(pct * den - 10000 * num) <= den

\* one element per line of the analyzed files, and per surviving line
AllLines(rs) == UNION {{i} \X (1..rs[i][2]) : i \in 1..Len(rs)}
SurvivingLines(rs) == UNION {{i} \X (1..rs[i][3]) : i \in 1..Len(rs)}

\* C5: the report's totals are the sums over the files, the evolved lines
\* their difference, and evolution_percent is 100 * evolved / total rounded
\* to 2 decimals, 0 for an empty total; (100, 80) twice gives 20.0.
C5_ReportSums ==
    Reduced =>
        /\ report.total_lines = Cardinality(AllLines(results))
        /\ report.base_lines_surviving = Cardinality(SurvivingLines(results))
        /\ report.manual_or_modified_lines =
               report.total_lines - report.base_lines_surviving
        /\ report.total_lines > 0 =>
               IsRounded(report.evolution_percent,
                         report.manual_or_modified_lines, report.total_lines)
        /\ report.total_lines = 0 => report.evolution_percent = 0
        /\ (Len(results) = 2 /\ \A i \in 1..2 : results[i][2] = 100 /\ results[i][3] = 80)
               => report.evolution_percent = 2000

C5_Witness ==
    /\ Reduced
    /\ Len(results) = 2
    /\ \A i \in 1..2 : results[i][2] = 100 /\ results[i][3] = 80
    /\ report.total_lines = 200
    /\ report.evolution_percent = 2000

Swap(rs, i, j) ==
    [k \in 1..Len(rs) |-> IF k = i THEN rs[j] ELSE IF k = j THEN rs[i] ELSE rs[k]]

Aggregates(rep) ==
    <<rep.total_lines, rep.base_lines_surviving, rep.manual_or_modified_lines,
      rep.evolution_percent, rep.survival_percent, rep.files_analyzed>>

\* C7: the aggregate fields of the report are the same for every order of
\* the per-file tuples: exchanging two neighbouring tuples changes none of
\* them (these exchanges generate every permutation, and every order of a
\* reachable result list is a reachable result list).
C7_AggregatesOrderFree ==
    Reduced =>
        \A i \in 1..(Len(results) - 1) :
            Aggregates(Reduce(Swap(results, i, i + 1), files, base_commit))
                = Aggregates(report)

C7_Witness ==
    /\ Reduced
    /\ Len(results) >= 2
    /\ results[1][2] # results[2][2]
    /\ results[1][3] # results[2][3]
    /\ report.total_lines > report.base_lines_surviving

Requested == Reduced /\ report.file_breakdown # None

\* C8: the breakdown is independent of the order of the per-file tuples:
\* any permutation of them gives the same list, entry by entry.
C8_BreakdownOrderFree ==
    Requested =>
        \A i, j \in 1..Len(results) :
            FileBreakdown(Swap(results, i, j)) = report.file_breakdown[1]

\* C9 as stated: the breakdown has at most 20 entries and each entry's
\* evolution_percent is strictly greater than that of the entry after it.
C9_StrictlyDescending ==
    Requested =>
        LET bd == report.file_breakdown[1]
        IN  /\ Len(bd) <= BreakdownLimit
            /\ \A k \in 1..(Len(bd) - 1) :
                   bd[k].evolution_percent > bd[k + 1].evolution_percent

\* C9 as amended: the breakdown has at most 20 entries and is sorted
\* descending: each entry's evolution_percent is greater than or equal to
\* that of the entry after it.
C9_Descending ==
    Requested =>
        LET bd == report.file_breakdown[1]
        IN  /\ Len(bd) <= BreakdownLimit
            /\ \A k \in 1..(Len(bd) - 1) :
                   bd[k].evolution_percent >= bd[k + 1].evolution_percent

Qualifying(rs) == {i \in 1..Len(rs) : rs[i][2] > 0}

C9_Witness ==
    /\ Requested
    /\ Cardinality(Qualifying(results)) > BreakdownLimit
    /\ Len(report.file_breakdown[1]) = BreakdownLimit
    /\ report.file_breakdown[1][1].evolution_percent
           > report.file_breakdown[1][BreakdownLimit].evolution_percent

\* C10: the breakdown holds exactly the (up to 20) highest-evolution files
\* among those with totalLines > 0: every entry is such a file with
\* evolved_lines = totalLines - baseSurvivingLines, no file appears twice, no
\* (path, 0, 0) file appears, and no omitted file with totalLines > 0 has a
\* strictly higher evolution percentage than an included one.
C10_TopFiles ==
    Requested =>
        LET bd == report.file_breakdown[1]
            q == Qualifying(results)
            Included(i) == \E k \in 1..Len(bd) : bd[k].file = results[i][1]
        IN  /\ \A k \in 1..Len(bd) :
                   \E i \in q :
                       /\ bd[k].file = results[i][1]
                       /\ bd[k].total_lines = results[i][2]
                       /\ bd[k].evolved_lines = results[i][2] - results[i][3]
                       /\ IsRounded(bd[k].evolution_percent,
                                    bd[k].evolved_lines, bd[k].total_lines)
            /\ \A k, l \in 1..Len(bd) : bd[k].file = bd[l].file => k = l
            /\ Len(bd) = (IF Cardinality(q) < BreakdownLimit
                          THEN Cardinality(q) ELSE BreakdownLimit)
            /\ \A i \in q : ~Included(i) =>
                   \A k \in 1..Len(bd) :
                       \* 100 * evolved_i / total_i <= bd[k].evolution_percent,
                       \* up to the rounding of the latter
                       2 * (10000 * (results[i][2] - results[i][3])
                                - bd[k].evolution_percent * results[i][2])
                           <= results[i][2]

C10_Witness ==
    /\ Requested
    /\ Len(report.file_breakdown[1]) = BreakdownLimit
    /\ \E i \in 1..Len(results) : results[i][2] = 0
    /\ \E i \in Qualifying(results) :
           \A k \in 1..BreakdownLimit :
               report.file_breakdown[1][k].file # results[i][1]

----------------------------------------------------------------------------
(* SpecRun: one run of main (src/git_evolve/cli.py): analyze on the         *)
(* sequential or the parallel path, the worker processes of                *)
(* analyze_parallel, a keyboard interrupt at any moment, and the output    *)

MaxExtra == 1        \* files of the listing beyond ParallelThreshold
MaxWorkers == 2      \* the largest max_workers argument
MaxIrregular == 1    \* futures of a run that hold an exception, or that
                     \* come ahead of the future of an earlier file

ParallelThreshold == 10
ProgressEvery == 10
ExitError == 1
ExitInterrupted == 130
DefaultWorkers == 4

\* what analyze_file_blame_optimized returns for the i-th file of the
\* listing: the repository does not change during a run
Answer(i) == <<PathName(i), i % 3, (i % 3) \div 2>>

\* get_repository_root, resolve_commit and get_tracked_files: all succeed,
\* or one of them raises
SetupOutcomes ==
    {"ok", "NotAGitRepositoryError", "InvalidCommitError", "GitCommandError"}

Formats == {"visual", "json", "csv", "quiet"}

\* if not files
NoFilesNever(fs) == FALSE

NoFiles(fs) == fs = <<>>

\* if parallel and len(files) > 10
UseParallelAtThreshold(parallel, n) == parallel /\ n >= ParallelThreshold

UseParallel(parallel, n) == parallel /\ n > ParallelThreshold

Running(ts) == {i \in DOMAIN ts : ts[i] = "running"}
Queued(ts) == {i \in DOMAIN ts : ts[i] = "queued"}
Finished(ts) == {i \in DOMAIN ts : ts[i] \in {"returned", "raised"}}
Raised(ts) == {i \in DOMAIN ts : ts[i] = "raised"}

\* the futures as_completed has yielded
Yielded(tk) == {tk[p] : p \in 1..Len(tk)}

\* how many pairs of files have the later one first: yielded before the
\* earlier one, or waiting to be yielded while the earlier one still runs
Overtakes(ts, tk) ==
    LET yielded == Yielded(tk)
        waiting == Finished(ts) \ yielded
        running == Running(ts)
        places == 1..Len(tk)
    IN  Cardinality({pq \in places \X places :
                        pq[1] < pq[2] /\ tk[pq[1]] > tk[pq[2]]})
        + Cardinality({jk \in (waiting \cup running) \X yielded :
                          jk[1] < jk[2]})
        + Cardinality({jk \in running \X waiting : jk[1] < jk[2]})

Irregular(ts, tk) == Cardinality(Raised(ts)) + Overtakes(ts, tk)

\* the list comprehension of the sequential path has gone through files
AllAnalyzed(rs, fs) == Len(rs) = Len(fs)

\* ProcessPoolExecutor(max_workers=max_workers): a queued call is started
\* when one of the max_workers processes is free
FreeWorkerAlways(ts, max_workers) == TRUE

FreeWorker(ts, max_workers) == Cardinality(Running(ts)) < max_workers

\* the body of the as_completed loop on the future of file i
CollectAll(rs, ts, i) == Append(rs, Answer(i))

Collect(rs, ts, i) ==
    IF ts[i] = "returned" THEN Append(rs, Answer(i)) ELSE rs

\* standard error after the loop body on the future of file i: the
\* except clause is `pass`, nothing is written for a failed future
Warned(err, ts, i) == err

\* the as_completed loop ends when every future has been yielded
LoopDoneEarly(tk, ts) == Len(tk) + 1 >= Len(ts)

LoopDone(tk, ts) == Yielded(tk) = DOMAIN ts

\* main: the exit status, from the exception that reached it (None when
\* analyze returned) and the report
ExitStatusIgnoringError(exc, rep) ==
    IF exc = Some("KeyboardInterrupt") THEN ExitInterrupted
    ELSE IF exc # None THEN ExitError
    ELSE 0

ExitStatus(exc, rep) ==
    IF exc = Some("KeyboardInterrupt") THEN ExitInterrupted
    ELSE IF exc \in {Some("GitCommandError"), Some("InvalidCommitError"),
                     Some("NotAGitRepositoryError"), Some("RuntimeError")}
         THEN ExitError
    ELSE IF rep.error # None THEN ExitError
    ELSE 0

InitRun ==
    /\ files \in {Listing(n) :
                     n \in {0, 1, ParallelThreshold}
                           \cup (ParallelThreshold + 1
                                    .. ParallelThreshold + MaxExtra)}
    /\ args \in [parallel : BOOLEAN,
                 max_workers : (0..MaxWorkers) \cup {DefaultWorkers},
                 show_progress : BOOLEAN]
    /\ setup \in SetupOutcomes
    /\ pc = "analyze"
    /\ pool = "none"
    /\ tasks = <<>>
    /\ taken = <<>>
    /\ completed = 0
    /\ stdout = <<>>
    /\ stderr = <<>>
    /\ exit_status = None
    /\ results = <<>>
    /\ report = NoReport
    /\ base_commit = RevA
    /\ file_path = PathName(1)
    /\ binary = "unspecified"
    /\ blame = [kind |-> "ok", output |-> <<>>]
    /\ outcome = NotCalled
    /\ NoResolve
    /\ NoListing
    /\ NoGit

\* analyze up to the choice of the path: a query that raises gives the
\* report of its handler, an empty listing the "No tracked files found"
\* report
Setup ==
    /\ pc = "analyze"
    /\ IF setup # "ok"
       THEN /\ report' = ErrorReport(setup, "")
            /\ pc' = "output"
       ELSE IF NoFiles(files)
       THEN /\ report' = ErrorReport("No tracked files found", "repo")
            /\ pc' = "output"
       ELSE /\ report' = report
            /\ pc' = IF UseParallel(args.parallel, Len(files))
                     THEN "dispatch" ELSE "sequential"
    /\ UNCHANGED <<stderr, args, setup, pool, tasks, taken, completed, stdout,
                   exit_status, files, results>>
    /\ UNCHANGED <<blameVars, resolveVars, filesVars, gitVars>>

\* the sequential path: the next file of the listing is analyzed
AnalyzeNext ==
    /\ pc = "sequential"
    /\ Len(results) < Len(files)
    /\ results' = Append(results, Answer(Len(results) + 1))
    /\ UNCHANGED <<runVars, files, report>>
    /\ UNCHANGED <<blameVars, resolveVars, filesVars, gitVars>>

\* analyze_parallel: the pool is created and one call per file submitted;
\* ProcessPoolExecutor raises ValueError for max_workers <= 0, which
\* analyze reports as an unexpected error
Dispatch ==
    /\ pc = "dispatch"
    /\ IF args.max_workers <= 0
       THEN /\ report' = ErrorReport("Unexpected error", "")
            /\ pc' = "output"
            /\ UNCHANGED <<pool, tasks>>
       ELSE /\ pool' = "open"
            /\ tasks' = [i \in 1..Len(files) |-> "queued"]
            /\ pc' = "parallel"
            /\ report' = report
    /\ UNCHANGED <<stderr, args, setup, taken, completed, stdout, exit_status,
                   files, results>>
    /\ UNCHANGED <<blameVars, resolveVars, filesVars, gitVars>>

\* a worker process takes the oldest queued call; the pool takes calls
\* until it is shut down, and shutdown(wait=True) waits for all of them
TaskStarts ==
    /\ pool = "open"
    /\ Queued(tasks) # {}
    /\ FreeWorker(tasks, args.max_workers)
    /\ LET i == MinOf(Queued(tasks))
       IN  tasks' = [tasks EXCEPT ![i] = "running"]
    /\ UNCHANGED <<stderr, args, setup, pc, pool, taken, completed, stdout,
                   exit_status, files, results, report>>
    /\ UNCHANGED <<blameVars, resolveVars, filesVars, gitVars>>

\* a running call ends: its future holds the tuple or an exception
TaskEnds ==
    /\ pool = "open"
    /\ \E i \in Running(tasks) :
       \E end \in {"returned", "raised"} :
           /\ tasks' = [tasks EXCEPT ![i] = end]
           /\ Irregular(tasks', taken) <= MaxIrregular
    /\ UNCHANGED <<stderr, args, setup, pc, pool, taken, completed, stdout,
                   exit_status, files, results, report>>
    /\ UNCHANGED <<blameVars, resolveVars, filesVars, gitVars>>

\* one turn of the as_completed loop
Take ==
    /\ pc = "parallel"
    /\ \E i \in Finished(tasks) \ Yielded(taken) :
           /\ taken' = Append(taken, i)
           /\ Irregular(tasks, taken') <= MaxIrregular
           /\ results' = Collect(results, tasks, i)
           /\ stderr' = Warned(stderr, tasks, i)
    /\ completed' = completed + 1
    /\ stdout' = IF args.show_progress /\ completed' % ProgressEvery = 0
                 THEN Append(stdout, "progress") ELSE stdout
    /\ UNCHANGED <<args, setup, pc, pool, tasks, exit_status, files, report>>
    /\ UNCHANGED <<blameVars, resolveVars, filesVars, gitVars>>

\* the loop is over: the pool is shut down, the last progress line is
\* printed and analyze_parallel returns
ReturnParallel ==
    /\ pc = "parallel"
    /\ LoopDone(taken, tasks)
    /\ pool' = "closed"
    /\ stdout' = IF args.show_progress
                 THEN Append(stdout, "progress") ELSE stdout
    /\ pc' = "reduce"
    /\ UNCHANGED <<stderr, args, setup, tasks, taken, completed, exit_status,
                   files, results, report>>
    /\ UNCHANGED <<blameVars, resolveVars, filesVars, gitVars>>

\* analyze from the reduction on: the report is returned to main
ReduceRun ==
    /\ \/ pc = "sequential" /\ AllAnalyzed(results, files)
       \/ pc = "reduce"
    /\ report' = BuildResult(results, files, base_commit, FALSE, FALSE,
                             [kind |-> "ok", lines |-> <<>>])
    /\ pc' = "output"
    /\ UNCHANGED <<stderr, args, setup, pool, tasks, taken, completed, stdout,
                   exit_status, files, results>>
    /\ UNCHANGED <<blameVars, resolveVars, filesVars, gitVars>>

\* main after analyze returned: an error report goes to standard error
\* with status 1, any other report to standard output in the chosen form
MainOutput ==
    /\ pc = "output"
    /\ \E format \in Formats :
           stdout' = IF report.error # None THEN stdout
                     ELSE Append(stdout, format)
    /\ stderr' = IF report.error # None
                 THEN Append(stderr, "error") ELSE stderr
    /\ exit_status' = Some(ExitStatus(None, report))
    /\ pc' = "exited"
    /\ UNCHANGED <<args, setup, pool, tasks, taken, completed,
                   files, results, report>>
    /\ UNCHANGED <<blameVars, resolveVars, filesVars, gitVars>>

\* KeyboardInterrupt in the main process.  No handler of analyze catches
\* it: outside the pool's with block it reaches main at once, which exits
\* with 130; inside, it first runs the block's exit, shutdown(wait=True),
\* and the loop's results, futures and counter are never read again.
\* While main prints a report, what was already printed stays.
Interrupt ==
    /\ pc \in {"analyze", "sequential", "dispatch", "parallel", "reduce",
               "output"}
    /\ IF pc = "parallel"
       THEN /\ pc' = "shutdown"
            /\ taken' = <<>>
            /\ completed' = 0
            /\ results' = <<>>
            /\ UNCHANGED <<stdout, stderr, exit_status>>
       ELSE /\ pc' = "exited"
            /\ stderr' = Append(stderr, "interrupted")
            /\ UNCHANGED <<taken, completed, results>>
            /\ exit_status' = Some(ExitStatus(Some("KeyboardInterrupt"), report))
            /\ \E partial \in BOOLEAN :
                   stdout' = IF partial /\ pc = "output" /\ report.error = None
                             THEN Append(stdout, "partial") ELSE stdout
    /\ UNCHANGED <<args, setup, pool, tasks, files, report>>
    /\ UNCHANGED <<blameVars, resolveVars, filesVars, gitVars>>

\* shutdown(wait=True) returns once no call is queued or running; the
\* interrupt then reaches main
ShutdownDone ==
    /\ pc = "shutdown"
    /\ Queued(tasks) = {}
    /\ Running(tasks) = {}
    /\ pool' = "closed"
    /\ pc' = "exited"
    /\ stderr' = Append(stderr, "interrupted")
    /\ exit_status' = Some(ExitStatus(Some("KeyboardInterrupt"), report))
    /\ UNCHANGED <<args, setup, tasks, taken, completed, stdout,
                   files, results, report>>
    /\ UNCHANGED <<blameVars, resolveVars, filesVars, gitVars>>

NextRun ==
    \/ Setup
    \/ AnalyzeNext
    \/ Dispatch
    \/ TaskStarts
    \/ TaskEnds
    \/ Take
    \/ ReturnParallel
    \/ ReduceRun
    \/ MainOutput
    \/ Interrupt
    \/ ShutdownDone

SpecRun == InitRun /\ [][NextRun]_vars

RunTypeOK == pc \in {"analyze", "sequential", "dispatch", "parallel",
                     "shutdown", "reduce", "output", "exited"}

----------------------------------------------------------------------------
(* Claims about the run, checked under SpecRun *)

\* the results of the sequential path: [analyze(f) for f in files]
SequentialResults(fs) == [i \in 1..Len(fs) |-> Answer(i)]

\* how often the tuple r is in the list rs
Count(rs, r) == Cardinality({p \in 1..Len(rs) : rs[p] = r})

\* analyze_parallel has returned and no future held an exception
ReturnedClean == pc = "reduce" /\ Raised(tasks) = {}

\* C11: when no task fails, the results analyze_parallel returns are, as a
\* multiset, the results of the sequential path: each file's tuple exactly
\* once, whatever the order in which the tasks ended and were collected.
C11_ParallelEqualsSequential ==
    ReturnedClean =>
        /\ Len(results) = Len(files)
        /\ \A i \in 1..Len(files) :
               Count(results, SequentialResults(files)[i]) = 1

\* a clean parallel run whose results are not in the order of the listing
C11_Witness ==
    /\ ReturnedClean
    /\ \E p \in 1..Len(results) : results[p] # SequentialResults(files)[p]

\* the run is on the parallel path: analyze_parallel was called and has
\* not returned to the reduction yet
OnParallelPath == pc \in {"dispatch", "parallel", "shutdown", "reduce"}

\* C12 (as stated): analyze takes the parallel path exactly when the
\* listing has more than 10 files, and the sequential path otherwise.
C12_ParallelIffMoreThanTen ==
    /\ OnParallelPath => Len(files) > ParallelThreshold
    /\ pc = "sequential" => Len(files) <= ParallelThreshold

\* C12 (amended): analyze takes the parallel path exactly when the parallel
\* argument is set and the listing has more than 10 files; then one task
\* per file is submitted to the pool.  Otherwise the files are analyzed
\* sequentially and no pool is ever created.
C12_ParallelIffEnabledAndMoreThanTen ==
    LET chosen == args.parallel /\ Len(files) > ParallelThreshold
    IN  /\ OnParallelPath => chosen
        /\ pc = "sequential" => ~chosen
        /\ pool # "none" => chosen /\ DOMAIN tasks = 1..Len(files)
        /\ ~chosen => pool = "none" /\ tasks = <<>>

\* a listing of more than 10 files whose tasks have just been submitted
C12_Witness ==
    /\ pc = "parallel"
    /\ pool = "open"
    /\ Len(files) > ParallelThreshold
    /\ Queued(tasks) = 1..Len(files)

\* C13: while the pool exists, the number of analyze_file_blame_optimized
\* calls running at the same time never exceeds max_workers.
C13_BoundedConcurrency ==
    pool # "none" => Cardinality(Running(tasks)) <= args.max_workers

\* every worker is busy and a submitted file waits for a free one
C13_Witness ==
    /\ pool = "open"
    /\ args.max_workers > 1
    /\ Cardinality(Running(tasks)) = args.max_workers
    /\ Queued(tasks) # {}

\* C14: a task that ends with an exception is left out of the results and
\* does not abort the run: analyze_parallel returns, with the tuple of
\* every file whose task returned and of no other, and analyze reduces
\* these to a report without an error.
C14_FailedTaskLeftOut ==
    /\ pc = "reduce" =>
           \A i \in DOMAIN tasks :
               Count(results, Answer(i)) =
                   IF tasks[i] = "returned" THEN 1 ELSE 0
    /\ pool = "closed" /\ report # NoReport =>
           /\ report.error = None
           /\ report.total_lines = SumField(results, 2)

\* analyze_parallel returned after a task raised: one tuple is missing
C14_Witness ==
    /\ pc = "reduce"
    /\ Raised(tasks) # {}
    /\ Len(results) = Len(files) - Cardinality(Raised(tasks))
    /\ Len(results) > 0

----------------------------------------------------------------------------
(* SpecResolve: one call of resolve_commit on any answer of git rev-parse *)

MaxPad == 1          \* white-space characters before and after the answer

NL == "\n"
CR == "\r"

\* the characters str.strip() removes
IsWhite(c) == c \in {SP, TAB, NL, CR}

MaxOf(S) == CHOOSE x \in S : \A y \in S : x >= y

\* s.strip()
Strip(s) ==
    LET solid == {i \in 1..Len(s) : ~IsWhite(s[i])}
    IN  IF solid = {} THEN <<>> ELSE SubSeq(s, MinOf(solid), MaxOf(solid))

HexDigits ==
    {"0", "1", "2", "3", "4", "5", "6", "7", "8", "9",
     "a", "b", "c", "d", "e", "f", "A", "B", "C", "D", "E", "F"}

\* a path of HashLen characters, as rev-parse --show-toplevel prints
PathOfHashLen == [i \in 1..HashLen |-> IF i = 1 THEN "/" ELSE "a"]

\* what rev-parse can print, without the white space around it
RevParseAnswers ==
    {RevA, RevB,
     [i \in 1..HashLen |-> IF i % 2 = 0 THEN "F" ELSE "9"],
     SubSeq(RevA, 1, HashLen - 1),
     RevA \o <<"a">>,
     SubSeq(RevA, 1, MinHashLen),
     RevA \o <<NL>> \o RevB,
     <<>>,
     PathOfHashLen}

Pads == UNION {[1..n -> {SP, TAB, NL, CR}] : n \in 0..MaxPad}

\* run_git_command(["git", "rev-parse", base_commit]): the standard output,
\* GitCommandError (non-zero exit, or git is not installed), or another
\* exception, which run_git_command lets through
RevParseOutcomes ==
    {[kind |-> "ok", output |-> l \o a \o r] :
         l \in Pads, a \in RevParseAnswers, r \in Pads}
    \cup {[kind |-> "GitCommandError", output |-> <<>>],
          [kind |-> "Exception", output |-> <<>>]}

Returned(value) == [called |-> TRUE, raised |-> "", value |-> value]
Raise(class) == [called |-> TRUE, raised |-> class, value |-> <<>>]

\* resolve_commit with the length test left out
ResolveCommitUnchecked(rp) ==
    IF rp.kind = "Exception" THEN Raise("Exception")
    ELSE IF rp.kind = "GitCommandError" THEN Raise("InvalidCommitError")
    ELSE Returned(Strip(rp.output))

\* the InvalidCommitError of the length test is a GitCommandError: the
\* except clause catches it and raises InvalidCommitError again
resolve_commit(rp) ==
    IF rp.kind = "Exception" THEN Raise("Exception")
    ELSE IF rp.kind = "GitCommandError" THEN Raise("InvalidCommitError")
    ELSE LET result == Strip(rp.output)
         IN  IF Len(result) # HashLen
             THEN Raise("InvalidCommitError")
             ELSE Returned(result)

InitResolve ==
    /\ rev_parse \in RevParseOutcomes
    /\ resolved = [called |-> FALSE, raised |-> "", value |-> <<>>]
    /\ file_path = PathName(1)
    /\ base_commit = RevA
    /\ binary = "unspecified"
    /\ blame = [kind |-> "ok", output |-> <<>>]
    /\ outcome = NotCalled
    /\ files = <<>>
    /\ results = <<>>
    /\ report = NoReport
    /\ NoRun
    /\ NoListing
    /\ NoGit

ResolveCommit ==
    /\ ~resolved.called
    /\ resolved' = resolve_commit(rev_parse)
    /\ UNCHANGED rev_parse
    /\ UNCHANGED <<blameVars, reportVars, runVars, filesVars, gitVars>>

NextResolve == ResolveCommit

SpecResolve == InitResolve /\ [][NextResolve]_vars

----------------------------------------------------------------------------
(* Claims about resolve_commit, checked under SpecResolve *)

\* v is s without the white space at its two ends
IsStripOf(v, s) ==
    /\ v # <<>> => ~IsWhite(v[1]) /\ ~IsWhite(v[Len(v)])
    /\ \E a, b \in 0..Len(s) :
           /\ a + Len(v) + b = Len(s)
           /\ SubSeq(s, a + 1, a + Len(v)) = v
           /\ \A i \in (1..a) \cup ((Len(s) - b + 1)..Len(s)) : IsWhite(s[i])

\* the stripped output of rev-parse has exactly HashLen characters
FullLength(rp) ==
    \E a \in 0..Len(rp.output) :
        /\ a + HashLen <= Len(rp.output)
        /\ IsStripOf(SubSeq(rp.output, a + 1, a + HashLen), rp.output)

C16_ResolvedIsHex ==
    resolved.called /\ resolved.raised = "" =>
        /\ Len(resolved.value) = HashLen
        /\ \A i \in 1..Len(resolved.value) : resolved.value[i] \in HexDigits

----------------------------------------------------------------------------
(* Claims about analyze and main, checked under SpecRun *)

\* the files analyze_file_blame_optimized has been called for
Invoked ==
    IF pool = "none" THEN 1..Len(results)
    ELSE {i \in DOMAIN tasks : tasks[i] # "queued"}

\* analyze has returned its report to main
AnalyzeReturned == report # NoReport

\* C17: when the listing is empty, analyze returns a report whose error is
\* "No tracked files found" and whose numeric fields are all zero, and
\* analyze_file_blame_optimized is never called.
C17_EmptyListing ==
    setup = "ok" /\ files = <<>> =>
        /\ Invoked = {}
        /\ pc \in {"analyze", "output", "exited"}
        /\ AnalyzeReturned =>
               /\ report.error = Some("No tracked files found")
               /\ report.total_lines = 0
               /\ report.base_lines_surviving = 0
               /\ report.manual_or_modified_lines = 0
               /\ report.evolution_percent = 0
               /\ report.survival_percent = 0
               /\ report.files_analyzed = 0

\* analyze returned for an empty listing
C17_Witness ==
    /\ setup = "ok"
    /\ files = <<>>
    /\ AnalyzeReturned
    /\ pc = "output"

\* the exceptions main handles with status 1
FatalErrors ==
    {"GitCommandError", "InvalidCommitError", "NotAGitRepositoryError",
     "RuntimeError"}

\* C18: the process ends with status 130 when a keyboard interrupt reached
\* main, with status 1 when the report carries an error or one of the
\* fatal exceptions reached main, and with status 0 in every other case,
\* however many files were skipped.
C18_ExitStatus ==
    /\ [][exit_status' # exit_status =>
              exit_status' =
                  Some(IF Interrupt \/ ShutdownDone THEN ExitInterrupted
                       ELSE IF report.error # None THEN ExitError
                       ELSE 0)]_vars
    /\ [](\A exc \in FatalErrors :
              ExitStatus(Some(exc), report) = ExitError)

\* a run that skipped a failed file ended with status 0, its report on
\* standard output
C18_Witness ==
    /\ exit_status = Some(0)
    /\ Raised(tasks) # {}
    /\ stdout # <<>>

\* the places of standard output that hold a report, whole or in part
ReportsWritten ==
    {p \in 1..Len(stdout) : stdout[p] \in Formats \cup {"partial"}}

\* the process has ended and analyze never returned: a keyboard interrupt
\* arrived during the analysis
InterruptedAnalysis == exit_status # None /\ ~AnalyzeReturned

\* a report is on standard output only when analyze has returned it after
\* every file was analyzed or every submitted task has ended
ReportOnlyAfterAnalysis ==
    ReportsWritten # {} =>
        /\ AnalyzeReturned
        /\ report.error = None
        /\ IF pool = "none"
           THEN Len(results) = Len(files)
           ELSE /\ pool = "closed"
                /\ Finished(tasks) = DOMAIN tasks
                /\ Yielded(taken) = DOMAIN tasks

\* C19: a report is written to standard output only after
\* every task has ended and the reduction is done; after an interrupt
\* during the analysis nothing is on standard output and the status is 130.
C19_NothingWrittenOnInterrupt ==
    /\ ReportOnlyAfterAnalysis
    /\ InterruptedAnalysis =>
           stdout = <<>> /\ exit_status = Some(ExitInterrupted)

\* C20: after a keyboard interrupt during the parallel phase no new work
\* is dispatched: a file whose task no worker had started stays unanalyzed
\* (tasks that were running may finish).
C20_NoDispatchAfterInterrupt ==
    [][pc = "shutdown" =>
           \A i \in DOMAIN tasks :
               tasks[i] = "queued" => tasks'[i] = "queued"]_vars

----------------------------------------------------------------------------
(* SpecFiles: one call of get_tracked_files on any listing and patterns *)

MaxListing == 3      \* entries of the git ls-files listing
MaxPatterns == 1     \* patterns of the exclude_patterns argument

\* text.splitlines(): the lines end at "\n", "\r\n" or "\r"
RECURSIVE SplitFrom(_, _, _)
SplitFrom(text, i, line) ==
    IF i > Len(text) THEN (IF line = <<>> THEN <<>> ELSE <<line>>)
    ELSE IF text[i] = NL THEN <<line>> \o SplitFrom(text, i + 1, <<>>)
    ELSE IF text[i] = CR
    THEN <<line>> \o SplitFrom(text,
                              IF i < Len(text) /\ text[i + 1] = NL
                              THEN i + 2 ELSE i + 1,
                              <<>>)
    ELSE SplitFrom(text, i + 1, Append(line, text[i]))

SplitLines(text) == SplitFrom(text, 1, <<>>)

\* os.path.basename(path)
Basename(path) ==
    LET slashes == {i \in 1..Len(path) : path[i] = "/"}
    IN  IF slashes = {} THEN path
        ELSE SubSeq(path, MaxOf(slashes) + 1, Len(path))

\* fnmatch: the place of the "]" that closes the class opened by pat[1],
\* 0 when there is none (the "[" is then an ordinary character)
ClassEnd(pat) ==
    LET n == Len(pat)
        j1 == IF n >= 2 /\ pat[2] = "!" THEN 3 ELSE 2
        j2 == IF j1 <= n /\ pat[j1] = "]" THEN j1 + 1 ELSE j1
        closing == {j \in j2..n : pat[j] = "]"}
    IN  IF closing = {} THEN 0 ELSE MinOf(closing)

\* fnmatch.fnmatch(name, pat) on a POSIX system: "*" is any text, "/"
\* included, "?" any character, "[seq]" and "[!seq]" a character of seq or
\* none of it (seq without ranges)
RECURSIVE FnMatch(_, _)
FnMatch(name, pat) ==
    IF pat = <<>> THEN name = <<>>
    ELSE IF pat[1] = "*"
    THEN FnMatch(name, Tail(pat))
         \/ (name # <<>> /\ FnMatch(Tail(name), pat))
    ELSE IF name = <<>> THEN FALSE
    ELSE IF pat[1] = "?" THEN FnMatch(Tail(name), Tail(pat))
    ELSE IF pat[1] = "[" /\ ClassEnd(pat) > 0
    THEN LET j == ClassEnd(pat)
             negated == pat[2] = "!"
             seq == {pat[k] : k \in (IF negated THEN 3 ELSE 2)..(j - 1)}
         IN  /\ (name[1] \in seq) # negated
             /\ FnMatch(Tail(name), SubSeq(pat, j + 1, Len(pat)))
    ELSE name[1] = pat[1] /\ FnMatch(Tail(name), Tail(pat))

\* the inner loop of get_tracked_files, with the basename test left out
ExcludedByPathOnly(filepath, patterns) ==
    \E k \in 1..Len(patterns) : FnMatch(filepath, patterns[k])

\* the inner loop of get_tracked_files: some pattern matches the path or
\* its basename
Excluded(filepath, patterns) ==
    \E k \in 1..Len(patterns) :
        \/ FnMatch(filepath, patterns[k])
        \/ FnMatch(Basename(filepath), patterns[k])

get_tracked_files(ls, patterns) ==
    IF ls.kind # "ok" THEN Raise(ls.kind)
    ELSE LET listed == SelectSeq(SplitLines(ls.output),
                                 LAMBDA f : Strip(f) # <<>>)
         IN  IF patterns # None /\ patterns[1] # <<>>
             THEN Returned(SelectSeq(listed,
                               LAMBDA f : ~Excluded(f, patterns[1])))
             ELSE Returned(listed)

LogoPng == <<"a", "s", "s", "e", "t", "s", "/", "l", "o", "g", "o", ".", "p", "n", "g">>
TrackedEntries ==
    {LogoPng,
     <<"s", "r", "c", "/", "a", ".", "p", "y">>,
     <<"p", "n", "g", "/", "R", "E", "A", "D", "M", "E">>,
     <<"b", ".", "p", "n", "g">>,
     <<SP, SP>>,
     <<>>}

StarPng == <<"*", ".", "p", "n", "g">>
Patterns ==
    {StarPng,
     <<"s", "r", "c", "/", "*">>,
     <<"l", "o", "g", "o", ".", "*">>,
     <<"?", ".", "p", "y">>,
     <<"[", "a", "b", "]", ".", "*">>,
     <<"[", "!", "s", "]", "*", "E">>}

\* the text git ls-files prints for a listing: every entry ends with "\n"
RECURSIVE JoinLines(_)
JoinLines(lines) ==
    IF lines = <<>> THEN <<>>
    ELSE lines[1] \o <<NL>> \o JoinLines(Tail(lines))

SeqsUpTo(S, n) == UNION {[1..k -> S] : k \in 0..n}

LsFilesOutcomes ==
    {[kind |-> "ok", lines |-> l, output |-> JoinLines(l)] :
         l \in SeqsUpTo(TrackedEntries, MaxListing)}
    \cup {[kind |-> "GitCommandError", lines |-> <<>>, output |-> <<>>]}

ExcludeArguments ==
    {None} \cup {Some(ps) : ps \in SeqsUpTo(Patterns, MaxPatterns)}

InitFiles ==
    /\ ls_files \in LsFilesOutcomes
    /\ exclude_patterns \in ExcludeArguments
    /\ tracked = [called |-> FALSE, raised |-> "", value |-> <<>>]
    /\ file_path = PathName(1)
    /\ base_commit = RevA
    /\ binary = "unspecified"
    /\ blame = [kind |-> "ok", output |-> <<>>]
    /\ outcome = NotCalled
    /\ files = <<>>
    /\ results = <<>>
    /\ report = NoReport
    /\ NoRun
    /\ NoResolve
    /\ NoGit

GetTrackedFiles ==
    /\ ~tracked.called
    /\ tracked' = get_tracked_files(ls_files, exclude_patterns)
    /\ UNCHANGED <<ls_files, exclude_patterns>>
    /\ UNCHANGED <<blameVars, reportVars, runVars, resolveVars, gitVars>>

NextFiles == GetTrackedFiles

SpecFiles == InitFiles /\ [][NextFiles]_vars

----------------------------------------------------------------------------
(* Claims about get_tracked_files, checked under SpecFiles *)

\* the patterns that apply: none when the argument is None or empty
GivenPatterns ==
    IF exclude_patterns = None THEN {}
    ELSE {exclude_patterns[1][k] : k \in 1..Len(exclude_patterns[1])}

\* the entry stays: it is not blank and no given pattern matches its full
\* path or its basename
Stays(entry) ==
    /\ \E i \in 1..Len(entry) : ~IsWhite(entry[i])
    /\ \A pat \in GivenPatterns :
           ~FnMatch(entry, pat) /\ ~FnMatch(Basename(entry), pat)

\* C21: get_tracked_files returns exactly the entries of the backend
\* listing that are not blank and that no given pattern matches, on the
\* full path or on the basename, in the order of the listing; without
\* patterns only blank entries are dropped.
C21_FilteredListing ==
    tracked.called /\ ls_files.kind = "ok" =>
        LET lines == ls_files.lines
            kept == {i \in 1..Len(lines) : Stays(lines[i])}
        IN  /\ tracked.raised = ""
            /\ Len(tracked.value) = Cardinality(kept)
            /\ \A i \in kept :
                   tracked.value[Cardinality({j \in kept : j <= i})] = lines[i]

\* assets/logo.png, a blank entry and a third entry under "*.png": the
\* call returned the third entry only
C21_Witness ==
    /\ tracked.called
    /\ exclude_patterns = Some(<<StarPng>>)
    /\ \E i, j \in 1..Len(ls_files.lines) :
           /\ ls_files.lines[i] = LogoPng
           /\ Strip(ls_files.lines[j]) = <<>>
    /\ Len(tracked.value) = 1
    /\ tracked.value[1] # LogoPng

----------------------------------------------------------------------------
(* SpecGit: one call of run_git_command, whatever the backend does on the  *)
(* first and on any later invocation                                       *)

MaxInvocations == 2  \* invocations whose behaviour the backend fixes

\* the cmd argument: the commands the analyzer issues
Commands ==
    {<<"git", "rev-parse", "HEAD">>,
     <<"git", "ls-files">>,
     <<"git", "rev-parse", "--show-toplevel">>}

\* ' '.join(cmd)
RECURSIVE JoinSpace(_)
JoinSpace(cmd) ==
    IF Len(cmd) <= 1 THEN cmd
    ELSE <<cmd[1], SP>> \o JoinSpace(Tail(cmd))

\* subprocess.run(cmd, capture_output=True, text=True, cwd=cwd, check=True):
\* the process exits with a status, the executable is not found, or the
\* process cannot be started or its output not be decoded
ProcessOutcomes ==
    [kind : {"exit"},
     returncode : {0, 1, 128},
     stdout : {<<>>, <<"f1.py", NL, "f2.py", NL>>},
     stderr : {<<>>, <<NL>>, <<"fatal: bad revision", NL>>}]
    \cup {[kind |-> k, returncode |-> 0, stdout |-> <<>>, stderr |-> <<>>] :
             k \in {"FileNotFoundError", "PermissionError",
                    "UnicodeDecodeError"}}

Exited(proc, ok) == proc.kind = "exit" /\ ((proc.returncode = 0) = ok)

\* str(e) of the CalledProcessError
StrOfError(cmd, returncode) ==
    <<"Command ">> \o cmd
        \o <<" returned non-zero exit status ", ToString(returncode)>>

GitReturned(value, n) ==
    [called |-> TRUE, raised |-> "", message |-> <<>>, value |-> value,
     invocations |-> n]

GitRaised(class, message, n) ==
    [called |-> TRUE, raised |-> class, message |-> message, value |-> <<>>,
     invocations |-> n]

\* run_git_command on the n-th invocation of the backend
RunOnce(cmd, be, n) ==
    LET proc == be[n]
    IN  IF Exited(proc, TRUE) THEN GitReturned(proc.stdout, n)
        ELSE IF proc.kind = "exit"
        THEN GitRaised("GitCommandError",
                       <<"Git command failed: ">> \o JoinSpace(cmd) \o <<NL>>
                           \o (IF proc.stderr # <<>> THEN Strip(proc.stderr)
                               ELSE StrOfError(cmd, proc.returncode)),
                       n)
        ELSE IF proc.kind = "FileNotFoundError"
        THEN GitRaised("GitCommandError",
                       <<"Git is not installed or not found in PATH">>, n)
        ELSE GitRaised(proc.kind, <<>>, n)

\* run_git_command invoking the backend a second time after a failure
RunGitCommandRetrying(cmd, be) ==
    IF Exited(be[1], TRUE) THEN RunOnce(cmd, be, 1) ELSE RunOnce(cmd, be, 2)

run_git_command(cmd, be) == RunOnce(cmd, be, 1)

InitGit ==
    /\ git_cmd \in Commands
    /\ backend \in [1..MaxInvocations -> ProcessOutcomes]
    /\ git_result = [called |-> FALSE, raised |-> "", message |-> <<>>,
                     value |-> <<>>, invocations |-> 0]
    /\ file_path = PathName(1)
    /\ base_commit = RevA
    /\ binary = "unspecified"
    /\ blame = [kind |-> "ok", output |-> <<>>]
    /\ outcome = NotCalled
    /\ files = <<>>
    /\ results = <<>>
    /\ report = NoReport
    /\ NoRun
    /\ NoResolve
    /\ NoListing

RunGitCommand ==
    /\ ~git_result.called
    /\ git_result' = run_git_command(git_cmd, backend)
    /\ UNCHANGED <<git_cmd, backend>>
    /\ UNCHANGED <<blameVars, reportVars, runVars, resolveVars, filesVars>>

NextGit == RunGitCommand

SpecGit == InitGit /\ [][NextGit]_vars

----------------------------------------------------------------------------
(* Claims about run_git_command, checked under SpecGit *)

\* part is in text, as consecutive elements
Contains(text, part) ==
    \E a \in 0..(Len(text) - Len(part)) :
        SubSeq(text, a + 1, a + Len(part)) = part

\* the words of cmd are in text, in order
NamesCommand(text, cmd) ==
    \E place \in [1..Len(cmd) -> 1..Len(text)] :
        /\ \A k \in 1..Len(cmd) : text[place[k]] = cmd[k]
        /\ \A k \in 1..(Len(cmd) - 1) : place[k] < place[k + 1]

\* the elements of text that are not white space
Solid(text) == SelectSeq(text, LAMBDA c : ~IsWhite(c))

----------------------------------------------------------------------------
(* Claims about the report of a run, checked under SpecRun *)

\* C23: in every report without an error, files_analyzed is the number of
\* files of the listing, on the sequential and on the parallel path,
\* whether or not files gave (0, 0) and whether or not failed tasks were
\* dropped from the results.
C23_FilesAnalyzedIsListing ==
    AnalyzeReturned /\ report.error = None =>
        report.files_analyzed = Len(files)

\* a report of the parallel path after a failed task was dropped, with a
\* file that gave (0, 0) among the results
C23_Witness ==
    /\ AnalyzeReturned
    /\ report.error = None
    /\ pool = "closed"
    /\ Raised(tasks) # {}
    /\ Len(results) < Len(files)
    /\ \E p \in 1..Len(results) : results[p][2] = 0 /\ results[p][3] = 0
    /\ report.files_analyzed = Len(files)

\* the warnings written to standard error so far
Warnings == {k \in 1..Len(stderr) : stderr[k] = "warning"}

\* the futures the loop caught raising, whose files are missing from results
Dropped == Raised(tasks) \cap Yielded(taken)

\* C24: whenever the loop catches a failed task and drops its file from the
\* results, a warning is emitted for that failure: standard error holds at
\* least one warning for each dropped task, and the failure shows nowhere
\* else (the results hold exactly the tuples of the futures that returned).
C24_WarningOnDroppedTask ==
    pc \in {"parallel", "reduce"} =>
        /\ Cardinality(Warnings) >= Cardinality(Dropped)
        /\ Len(results) = Cardinality(Yielded(taken) \ Dropped)
====
